---------------------------- MODULE Spec2Model ----------------------------
(***************************************************************************)
(* py-dedup: time-bound message deduplication.                             *)
(*                                                                         *)
(*   MessageHasher  (hasher.py)        canonical JSON text -> digest       *)
(*   MemoryCache    (cache/memory.py)  OrderedDict key -> expiry instant   *)
(*   Deduplicator   (deduplicator.py)  is_duplicate / clear                *)
(*                                                                         *)
(* Python strings are sequences of one-character strings, so that          *)
(* concatenation, parsing and sorting are computed and not assumed.        *)
(* time.monotonic() is an integer tick counter `now`.                      *)
(***************************************************************************)
EXTENDS Integers, Sequences, FiniteSets, TLC

(***************************************************************************)
(* Bounds of the model.                                                    *)
(***************************************************************************)
\* The clock stops advancing at MaxTime.
MaxTime == 3
\* The cache holds at most MaxEntries keys (an insert of a further new key is
\* not explored).
MaxEntries == 2
\* Largest integer leaf of the JSON messages hashed in SpecHash.
MaxLeaf == 2

(***************************************************************************)
(* Strings.                                                                *)
(***************************************************************************)
\* Code-point order of the characters that occur in dictionary keys.
Alphabet == <<"a", "b", "c">>

CharRank(c) == CHOOSE i \in 1..Len(Alphabet) : Alphabet[i] = c

RECURSIVE StrLess(_, _)
\* s < t on Python str: lexicographic by code point.
StrLess(s, t) ==
    IF t = <<>> THEN FALSE
    ELSE IF s = <<>> THEN TRUE
    ELSE IF Head(s) = Head(t) THEN StrLess(Tail(s), Tail(t))
    ELSE CharRank(Head(s)) < CharRank(Head(t))

DigitChars == <<"0", "1", "2", "3", "4", "5", "6", "7", "8", "9">>

IsDigit(c) == \E i \in 1..Len(DigitChars) : DigitChars[i] = c

DigitVal(c) == (CHOOSE i \in 1..Len(DigitChars) : DigitChars[i] = c) - 1

RECURSIVE NatToChars(_)
NatToChars(n) ==
    IF n < 10 THEN <<DigitChars[n + 1]>>
    ELSE NatToChars(n \div 10) \o <<DigitChars[(n % 10) + 1]>>

\* str(n) for an int, as json.dumps writes it.
IntToChars(n) == IF n < 0 THEN <<"-">> \o NatToChars(-n) ELSE NatToChars(n)

(***************************************************************************)
(* JSON values (what json.loads returns and json.dumps accepts).  A dict   *)
(* is its items in insertion order; all values share one record shape.     *)
(***************************************************************************)
JInt(n) == [t |-> "int", n |-> n, s |-> <<>>, kids |-> <<>>]

JStr(s) == [t |-> "str", n |-> 0, s |-> s, kids |-> <<>>]

\* items: a sequence of values
JList(items) ==
    [t |-> "list", n |-> 0, s |-> <<>>,
     kids |-> [i \in 1..Len(items) |-> [k |-> <<>>, v |-> items[i]]]]

\* pairs: a sequence of [k |-> key string, v |-> value], keys distinct
JDict(pairs) == [t |-> "dict", n |-> 0, s |-> <<>>, kids |-> pairs]

\* A value json.dumps cannot serialize (a set, an arbitrary object).
JOpaque == [t |-> "object", n |-> 0, s |-> <<>>, kids |-> <<>>]

\* d[k] = v on a dict's item list: an existing key keeps its position.
PairStore(pairs, k, v) ==
    IF \E i \in 1..Len(pairs) : pairs[i].k = k
    THEN [i \in 1..Len(pairs) |->
            IF pairs[i].k = k THEN [k |-> k, v |-> v] ELSE pairs[i]]
    ELSE Append(pairs, [k |-> k, v |-> v])

RECURSIVE InsertSorted(_, _)
InsertSorted(sorted, p) ==
    IF sorted = <<>> THEN <<p>>
    ELSE IF StrLess(p.k, Head(sorted).k) THEN <<p>> \o sorted
    ELSE <<Head(sorted)>> \o InsertSorted(Tail(sorted), p)

\* json.dumps with sort_keys ignored: the items in the dict's own order.
SortPairsKeepsOrder(pairs) == pairs

RECURSIVE SortPairs(_)
\* sorted(dct.items()) as json.dumps(sort_keys=True) orders a dict's items.
SortPairs(pairs) ==
    IF pairs = <<>> THEN <<>>
    ELSE InsertSorted(SortPairs(SubSeq(pairs, 1, Len(pairs) - 1)),
                      pairs[Len(pairs)])


(***************************************************************************)
(* json.dumps(message, sort_keys=..., ensure_ascii=False, **kwargs)        *)
(***************************************************************************)
RECURSIVE Serializable(_)
\* json.dumps raises TypeError on a value that is not JSON serializable.
Serializable(v) ==
    /\ v.t # "object"
    /\ \A i \in 1..Len(v.kids) : Serializable(v.kids[i].v)

RECURSIVE Encode(_, _, _), EncodeKids(_, _, _, _)
\* The text json.dumps writes: ", " and ": " separators by default,
\* "," and ":" with separators=(",", ":") (compact).
Encode(v, sort, compact) ==
    CASE v.t = "int" -> IntToChars(v.n)
      [] v.t = "str" -> <<"\"">> \o v.s \o <<"\"">>
      [] v.t = "list" ->
            <<"[">> \o EncodeKids(v.kids, FALSE, sort, compact) \o <<"]">>
      [] v.t = "dict" ->
            <<"{">>
            \o EncodeKids(IF sort THEN SortPairs(v.kids) ELSE v.kids,
                          TRUE, sort, compact)
            \o <<"}">>
      [] OTHER -> <<>>

EncodeKids(kids, isDict, sort, compact) ==
    IF kids = <<>> THEN <<>>
    ELSE LET one == (IF isDict
                     THEN <<"\"">> \o Head(kids).k \o <<"\"">>
                          \o (IF compact THEN <<":">> ELSE <<":", " ">>)
                     ELSE <<>>)
                    \o Encode(Head(kids).v, sort, compact)
         IN  IF Len(kids) = 1 THEN one
             ELSE one \o (IF compact THEN <<",">> ELSE <<",", " ">>)
                      \o EncodeKids(Tail(kids), isDict, sort, compact)

(***************************************************************************)
(* json.loads(text): a recursive-descent parser.  A result is              *)
(* [ok, v, rest]; ok = FALSE is json.JSONDecodeError (a ValueError).       *)
(***************************************************************************)
ParseFail == [ok |-> FALSE, v |-> JInt(0), rest |-> <<>>]

ParseOk(v, rest) == [ok |-> TRUE, v |-> v, rest |-> rest]

RECURSIVE SkipWs(_)
SkipWs(s) == IF s # <<>> /\ Head(s) = " " THEN SkipWs(Tail(s)) ELSE s

RECURSIVE ScanString(_, _)
\* s follows an opening quote; acc is what was read so far.
ScanString(s, acc) ==
    IF s = <<>> THEN ParseFail
    ELSE IF Head(s) = "\"" THEN ParseOk(JStr(acc), Tail(s))
    ELSE ScanString(Tail(s), Append(acc, Head(s)))

RECURSIVE ScanDigits(_, _)
ScanDigits(s, acc) ==
    IF s # <<>> /\ IsDigit(Head(s))
    THEN ScanDigits(Tail(s), 10 * acc + DigitVal(Head(s)))
    ELSE ParseOk(JInt(acc), s)

ScanNumber(s) ==
    IF Head(s) = "-"
    THEN IF Len(s) > 1 /\ IsDigit(s[2])
         THEN LET r == ScanDigits(Tail(s), 0)
              IN  ParseOk(JInt(-r.v.n), r.rest)
         ELSE ParseFail
    ELSE ScanDigits(s, 0)

RECURSIVE ParseValue(_), ParseMembers(_, _), ParseElements(_, _)
ParseValue(s0) ==
    LET s == SkipWs(s0)
    IN  IF s = <<>> THEN ParseFail
        ELSE CASE Head(s) = "{" ->
                    LET t == SkipWs(Tail(s))
                    IN  IF t # <<>> /\ Head(t) = "}"
                        THEN ParseOk(JDict(<<>>), Tail(t))
                        ELSE ParseMembers(t, <<>>)
               [] Head(s) = "[" ->
                    LET t == SkipWs(Tail(s))
                    IN  IF t # <<>> /\ Head(t) = "]"
                        THEN ParseOk(JList(<<>>), Tail(t))
                        ELSE ParseElements(t, <<>>)
               [] Head(s) = "\"" -> ScanString(Tail(s), <<>>)
               [] Head(s) = "-" \/ IsDigit(Head(s)) -> ScanNumber(s)
               [] OTHER -> ParseFail

\* s is at a member's key; acc is the item list of the dict read so far
\* (a repeated key keeps its first position and takes the last value).
ParseMembers(s0, acc) ==
    LET s == SkipWs(s0)
    IN  IF s = <<>> \/ Head(s) # "\"" THEN ParseFail
        ELSE LET key == ScanString(Tail(s), <<>>)
                 c == SkipWs(key.rest)
             IN  IF ~key.ok \/ c = <<>> \/ Head(c) # ":" THEN ParseFail
                 ELSE LET val == ParseValue(Tail(c))
                          e == SkipWs(val.rest)
                          acc2 == PairStore(acc, key.v.s, val.v)
                      IN  IF ~val.ok \/ e = <<>> THEN ParseFail
                          ELSE IF Head(e) = "}" THEN ParseOk(JDict(acc2), Tail(e))
                          ELSE IF Head(e) = "," THEN ParseMembers(Tail(e), acc2)
                          ELSE ParseFail

ParseElements(s, acc) ==
    LET val == ParseValue(s)
        e == SkipWs(val.rest)
        acc2 == Append(acc, val.v)
    IN  IF ~val.ok \/ e = <<>> THEN ParseFail
        ELSE IF Head(e) = "]" THEN ParseOk(JList(acc2), Tail(e))
        ELSE IF Head(e) = "," THEN ParseElements(Tail(e), acc2)
        ELSE ParseFail

\* json.loads: one value, then nothing but whitespace ("Extra data" otherwise).
Loads(text) ==
    LET r == ParseValue(text)
    IN  IF r.ok /\ SkipWs(r.rest) = <<>> THEN r ELSE ParseFail

(***************************************************************************)
(* Exceptions.  An outcome is [kind, cause]: the class raised and the      *)
(* class of the exception it was raised from (__cause__).                  *)
(***************************************************************************)
NoError == [kind |-> "none", cause |-> "none"]

Raise(kind, cause) == [kind |-> kind, cause |-> cause]

(***************************************************************************)
(* MessageHasher.                                                          *)
(*                                                                         *)
(* A message is [kind, val, text]:                                         *)
(*   "value"     a Python object: val is a JSON structure, or JOpaque      *)
(*   "str"       a Python str: text                                        *)
(*   "protobuf"  an object whose SerializeToString() returns text          *)
(*   "badproto"  an object whose SerializeToString() raises                *)
(***************************************************************************)
ValueMsg(v) == [kind |-> "value", val |-> v, text |-> <<>>]

StrMsg(text) == [kind |-> "str", val |-> JInt(0), text |-> text]

ProtoMsg(bytes) == [kind |-> "protobuf", val |-> JInt(0), text |-> bytes]

BadProtoMsg == [kind |-> "badproto", val |-> JInt(0), text |-> <<>>]

\* HashAlgorithm: the enum's members, each with the mark its digests carry.
HashAlgorithm == {"sha256", "md5", "sha1"}

AlgorithmMark(algorithm) ==
    CASE algorithm = "sha256" -> "S"
      [] algorithm = "md5" -> "M"
      [] algorithm = "sha1" -> "H"

\* hashlib digests are taken to be collision free: the hex digest is the
\* algorithm's mark followed by the digested bytes.
HashBytes(algorithm, b) == <<"#", AlgorithmMark(algorithm)>> \o b

\* s.encode("utf-8"): the characters modelled are ASCII, one byte each.
HashString(algorithm, s) == HashBytes(algorithm, s)

HashOk(digest) == [err |-> NoError, digest |-> digest]

HashFail(err) == [err |-> err, digest |-> <<>>]

\* kwargs of a call: "none"; "compact" is separators=(",", ":");
\* "sort_keys" is sort_keys=<anything>, a second value for a keyword
\* json.dumps is already given (TypeError).
HashJson(hasher, message, kwargs) ==
    LET parsed == IF message.kind = "str" THEN Loads(message.text)
                  ELSE ParseOk(IF message.kind = "value" THEN message.val
                               ELSE JOpaque, <<>>)
    IN  IF ~parsed.ok
        THEN HashFail(Raise("SerializationError", "ValueError"))
        ELSE IF kwargs = "sort_keys" \/ ~Serializable(parsed.v)
        THEN HashFail(Raise("SerializationError", "TypeError"))
        ELSE HashOk(HashString(hasher.algorithm,
                               Encode(parsed.v, hasher.sort_keys,
                                      kwargs = "compact")))

HashProtobuf(hasher, message, kwargs) ==
    IF message.kind \notin {"protobuf", "badproto"}
    THEN HashFail(Raise("SerializationError", "AttributeError"))
    ELSE IF kwargs # "none"
    THEN HashFail(Raise("SerializationError", "TypeError"))
    ELSE IF message.kind = "badproto"
    THEN HashFail(Raise("SerializationError", "EncodeError"))
    ELSE HashOk(HashBytes(hasher.algorithm, message.text))

\* A format argument that is not a str (None) has no lower().
NotAString == "<None>"

\* str.lower() on the format names that are passed.
Lower(format) ==
    CASE format = "JSON" -> "json"
      [] format = "Protobuf" -> "protobuf"
      [] OTHER -> format

HashMessage(hasher, message, format, kwargs) ==
    IF format = NotAString
    THEN HashFail(Raise("AttributeError", "none"))
    ELSE IF Lower(format) = "json" THEN HashJson(hasher, message, kwargs)
    ELSE IF Lower(format) = "protobuf" THEN HashProtobuf(hasher, message, kwargs)
    ELSE HashFail(Raise("SerializationError", "none"))

\* MessageHasher(algorithm, sort_keys=True)
MessageHasher(algorithm, sort_keys) ==
    [algorithm |-> algorithm, sort_keys |-> sort_keys]

(***************************************************************************)
(* MemoryCache: self._cache, an OrderedDict from key to expiry instant,    *)
(* is the sequence of its items [k, e] in dictionary order.                *)
(***************************************************************************)
DictHas(c, k) == \E i \in 1..Len(c) : c[i].k = k

\* self._cache[k] of a key that is present
DictAt(c, k) == c[CHOOSE i \in 1..Len(c) : c[i].k = k].e

DictKeys(c) == {c[i].k : i \in 1..Len(c)}

\* self._cache[k] = e: a present key keeps its position, a new one goes last.
DictStore(c, k, e) ==
    IF DictHas(c, k)
    THEN [i \in 1..Len(c) |-> IF c[i].k = k THEN [k |-> k, e |-> e] ELSE c[i]]
    ELSE Append(c, [k |-> k, e |-> e])

\* self._cache.pop(k, None)
DictPop(c, k) == SelectSeq(c, LAMBDA it : it.k # k)

\* self._cache.move_to_end(k) of a key that is present (KeyError otherwise)
DictMoveToEnd(c, k) == Append(DictPop(c, k), [k |-> k, e |-> DictAt(c, k)])

\* MemoryCache.delete(key)
CacheDelete(c, key) == DictPop(c, key)

\* MemoryCache.clear() as self._cache.popitem(last=False).
CacheClearPopsOne(c) == IF c = <<>> THEN c ELSE Tail(c)

\* MemoryCache.clear()
CacheClear(c) == <<>>

\* MemoryCache.get with the comparison turned round (expire_time > now).
CacheGetReversed(c, key, t) ==
    IF ~DictHas(c, key) THEN [val |-> FALSE, cache |-> c]
    ELSE IF DictAt(c, key) > t
    THEN [val |-> FALSE, cache |-> CacheDelete(c, key)]
    ELSE [val |-> TRUE, cache |-> c]

\* MemoryCache.get without the expiry test.
CacheGetNoExpiry(c, key, t) == [val |-> DictHas(c, key), cache |-> c]

\* MemoryCache.get that moves a key it finds live to the end of the order.
CacheGetTouches(c, key, t) ==
    IF ~DictHas(c, key) THEN [val |-> FALSE, cache |-> c]
    ELSE IF DictAt(c, key) < t
    THEN [val |-> FALSE, cache |-> CacheDelete(c, key)]
    ELSE [val |-> TRUE, cache |-> DictMoveToEnd(c, key)]

\* MemoryCache.get(key) at clock reading t: [val, cache]
CacheGet(c, key, t) ==
    IF ~DictHas(c, key) THEN [val |-> FALSE, cache |-> c]
    ELSE IF DictAt(c, key) < t
    THEN [val |-> FALSE, cache |-> CacheDelete(c, key)]
    ELSE [val |-> TRUE, cache |-> c]

\* MemoryCache.set with the guard ttl_seconds < 0.
CacheSetZeroAllowed(c, key, ttl_seconds, t) ==
    IF ttl_seconds < 0
    THEN [err |-> Raise("CacheError", "none"), cache |-> c]
    ELSE [err |-> NoError,
          cache |-> DictMoveToEnd(DictStore(c, key, t + ttl_seconds), key)]

\* MemoryCache.set without its move_to_end: a key set again keeps its place.
CacheSetKeepsPlace(c, key, ttl_seconds, t) ==
    IF ttl_seconds <= 0
    THEN [err |-> Raise("CacheError", "none"), cache |-> c]
    ELSE [err |-> NoError, cache |-> DictStore(c, key, t + ttl_seconds)]

\* MemoryCache.set(key, ttl_seconds) at clock reading t: [err, cache]
CacheSet(c, key, ttl_seconds, t) ==
    IF ttl_seconds <= 0
    THEN [err |-> Raise("CacheError", "none"), cache |-> c]
    ELSE [err |-> NoError,
          cache |-> DictMoveToEnd(DictStore(c, key, t + ttl_seconds), key)]

\* MemoryCache._clean_expired() dropping the entries with expire_time <= t.
CleanExpiredInclusive(c, t) == SelectSeq(c, LAMBDA it : ~(it.e <= t))

\* MemoryCache._clean_expired() at clock reading t
CleanExpired(c, t) == SelectSeq(c, LAMBDA it : ~(it.e < t))

(***************************************************************************)
(* Deduplicator.                                                           *)
(***************************************************************************)
\* No instance has been constructed yet.
NoInstance ==
    [made |-> FALSE, ttl_seconds |-> 0, key_prefix |-> <<>>,
     hasher |-> MessageHasher("sha256", TRUE)]

\* Deduplicator.__init__(ttl_seconds, cache_backend=<the cache>,
\* hash_algorithm, key_prefix).  ttl_seconds is [ty, v]: the argument's
\* Python type and its value.
DeduplicatorInit(ttl_seconds, hash_algorithm, key_prefix) ==
    IF ttl_seconds.ty # "int" \/ ttl_seconds.v <= 0
    THEN [err |-> Raise("ConfigurationError", "none"), self |-> NoInstance]
    ELSE [err |-> NoError,
          self |-> [made |-> TRUE, ttl_seconds |-> ttl_seconds.v,
                    key_prefix |-> key_prefix,
                    hasher |-> MessageHasher(hash_algorithm, TRUE)]]

\* custom_key: [given, key]; given = FALSE is None.
NoCustomKey == [given |-> FALSE, key |-> <<>>]

CustomKey(key) == [given |-> TRUE, key |-> key]

\* Key derivation that hashes the message before it looks at custom_key.
DeriveKeyHashesFirst(self, message, format, custom_key, kwargs) ==
    IF HashMessage(self.hasher, message, format, kwargs).err # NoError
    THEN [err |-> HashMessage(self.hasher, message, format, kwargs).err,
          key |-> self.key_prefix]
    ELSE IF custom_key.given
    THEN [err |-> NoError, key |-> self.key_prefix \o custom_key.key]
    ELSE [err |-> NoError,
          key |-> self.key_prefix
                  \o HashMessage(self.hasher, message, format, kwargs).digest]

\* deduplicator.py:75-81: the cache key, or the exception raised deriving it
DeriveKey(self, message, format, custom_key, kwargs) ==
    IF custom_key.given
    THEN [err |-> NoError, key |-> self.key_prefix \o custom_key.key]
    ELSE LET h == HashMessage(self.hasher, message, format, kwargs)
         IN  [err |-> h.err, key |-> self.key_prefix \o h.digest]

\* A handler that lets every exception through as it is.
SurfaceRaw(err) == err

\* deduplicator.py:92-96: what the call raises for an exception raised inside
Surface(err) ==
    IF err.kind \in {"SerializationError", "CacheError"} THEN err
    ELSE Raise("CacheError", err.kind)

\* What an is_duplicate call ended with: the exception it raised (err), the
\* exception raised inside it (raised), the cache key, the value returned,
\* the mapping it leaves, and the phase it ended in: "derive"
\* (deduplicator.py:75-81), "get" (:84) or "set" (:88).
Ended(raised, key, val, c, phase) ==
    [err |-> IF raised = NoError THEN NoError ELSE Surface(raised),
     raised |-> raised, key |-> key, val |-> val, cache |-> c, phase |-> phase]

\* A handler that empties the cache when the key derivation raised.
DeriveFailedClears(c, d) == Ended(d.err, <<>>, FALSE, <<>>, "derive")

\* deduplicator.py:75-81 raised: the handler at :92-96 runs
DeriveFailed(c, d) == Ended(d.err, <<>>, FALSE, c, "derive")

\* deduplicator.py:87-90 after cache.set returned or raised (s)
AfterSet(key, s) == Ended(s.err, key, FALSE, s.cache, "set")

\* is_duplicate without the cache.set of a key not seen.
AfterGetNoInsert(self, key, g, t2) == Ended(NoError, key, g.val, g.cache, "get")

\* is_duplicate with a sliding window: cache.set on every call.
AfterGetSliding(self, key, g, t2) ==
    Ended(NoError, key, g.val,
          CacheSet(g.cache, key, self.ttl_seconds, t2).cache, "set")

\* deduplicator.py:84-90 after cache.get returned g; cache.set reads the
\* clock at t2
AfterGet(self, key, g, t2) ==
    IF g.val
    THEN Ended(NoError, key, TRUE, g.cache, "get")
    ELSE AfterSet(key, CacheSet(g.cache, key, self.ttl_seconds, t2))

\* deduplicator.py:83-96 once the key derivation ended as d; cache.get reads
\* the clock at t1
AfterDerive(self, c, d, t1, t2) ==
    IF d.err # NoError
    THEN DeriveFailed(c, d)
    ELSE AfterGet(self, d.key, CacheGet(c, d.key, t1), t2)

\* Deduplicator.is_duplicate with the clock reading t1 in cache.get and
\* t2 in cache.set
IsDuplicate(self, c, message, format, custom_key, kwargs, t1, t2) ==
    AfterDerive(self, c, DeriveKey(self, message, format, custom_key, kwargs),
                t1, t2)

\* A clear() that drops only the keys that begin with the default prefix.
DeduplicatorClearPrefixed(c) ==
    SelectSeq(c, LAMBDA it : ~(/\ Len(it.k) >= 6
                              /\ SubSeq(it.k, 1, 6) = <<"d", "e", "d", "u", "p", ":">>))

\* Deduplicator.clear()
DeduplicatorClear(c) == CacheClear(c)

\* __exit__ that clears only when the block raised nothing.
DeduplicatorExitOnSuccess(c, exc) ==
    [cache |-> IF exc = NoError THEN DeduplicatorClear(c) ELSE c,
     suppress |-> FALSE]

\* Deduplicator.__exit__(exc_type, exc_val, exc_tb) when the block ended
\* with exc (NoError: no exception): the mapping left, and whether the value
\* returned (None) is true, which would suppress the exception.
DeduplicatorExit(c, exc) ==
    [cache |-> DeduplicatorClear(c), suppress |-> FALSE]

(***************************************************************************)
(* The library driven through its API by one thread.                       *)
(*                                                                         *)
(*   now    time.monotonic()                                               *)
(*   cache  the MemoryCache's _cache                                       *)
(*   dd     the Deduplicator built on that cache (NoInstance before)       *)
(*   ret    the last call: its name, arguments and outcome (val is the     *)
(*          value returned; for clear, which returns None, whether an      *)
(*          entry with time left was in the cache)                         *)
(*   rec    history: [k, t, m, again] when is_duplicate(m) recorded key k  *)
(*          (returned False) at clock reading t and k has been in the      *)
(*          cache since, touched by no clear, delete or direct cache.set;  *)
(*          again: k was in rec when that call was made                    *)
(*   hh     the pair of messages compared (SpecHash)                       *)
(*   th     the threads calling is_duplicate at once (SpecConc): for each  *)
(*          its position in the call, the arguments and cache key, the     *)
(*          expire_time it read, and two history flags: saw (when the call *)
(*          read the mapping, the last insert of its key for its message   *)
(*          had failed and nothing had stored the key since) and quiet     *)
(*          (nothing but this call has changed the mapping since it began) *)
(*          and over (the call stored its key over an entry with time      *)
(*          left, which it had not seen); out is how its last call ended:  *)
(*          "none", "new" (False), "dup" (True) or "raised"                *)
(*   scope  "in" inside a `with dd:` block, "out" outside (SpecScope)      *)
(*          In SpecShared rec holds the entries a clear() or a scope exit  *)
(*          removed with time left: key k, expiry e, the instance by       *)
(*          whose call they went, and back: the last call asked for the    *)
(*          key again, the first to do so.                                 *)
(*   ins    the history of the successful inserts: for each key still in   *)
(*          the cache the clock reading plus TTL of its most recent        *)
(*          insert, in the order of those inserts; kept from the calls'    *)
(*          arguments and outcomes, not from the mapping                   *)
(*   plain  the same calls made on a second cache that is never swept:     *)
(*          its mapping, and the result and branch of its last get.  ins   *)
(*          and plain are kept in SpecSweep only (plain.on)                *)
(***************************************************************************)
VARIABLES now, cache, dd, ret, rec, hh, th, scope, ins, plain

vars == <<now, cache, dd, ret, rec, hh, th, scope, ins, plain>>

Args(message, format, custom_key, kwargs) ==
    [message |-> message, format |-> format, custom_key |-> custom_key,
     kwargs |-> kwargs]

NoArgs == Args(ValueMsg(JInt(0)), "", NoCustomKey, "")

IntArg(v) == [ty |-> "int", v |-> v]

NoTtl == [ty |-> "", v |-> 0]

\* The record of a call: err is what it raised, raised what was raised
\* inside it, phase where an is_duplicate call ended.
Called(op, key, val, err, raised, phase, args, ttl) ==
    [op |-> op, key |-> key, val |-> val, err |-> err, raised |-> raised,
     phase |-> phase, args |-> args, ttl |-> ttl]

Result(op, key, val, err, args, ttl) ==
    Called(op, key, val, err, err, "", args, ttl)

\* Arguments the calls are made with.
TtlArguments ==
    {IntArg(-1), IntArg(0), IntArg(1), IntArg(2), [ty |-> "float", v |-> 1],
     [ty |-> "NoneType", v |-> 0]}

\* key_prefix: str = "dedup:"
DefaultPrefix == <<"d", "e", "d", "u", "p", ":">>

MsgAB == ValueMsg(JDict(<<[k |-> <<"a">>, v |-> JInt(1)], [k |-> <<"b">>, v |-> JInt(2)]>>))

\* '{"b":2, "a":1}'
MsgBAText ==
    StrMsg(<<"{", "\"", "b", "\"", ":", "2", ",", " ", "\"", "a", "\"", ":", "1", "}">>)

MsgOther == ValueMsg(JDict(<<[k |-> <<"a">>, v |-> JInt(2)]>>))

\* '{"a":' : not JSON
MsgMalformed == StrMsg(<<"{", "\"", "a", "\"", ":">>)

\* What is_duplicate is called with when the cache's bookkeeping is explored.
Messages == {MsgAB, MsgBAText, MsgOther}

\* Ticks of the clock between the reading in cache.get (memory.py:40) and
\* the reading in cache.set (memory.py:61) of one is_duplicate call.
Drifts == {0, 1}

Threads == {"t1", "t2"}

\* self._cache.get(key) as a thread read it: None (found = FALSE) or the
\* expiry instant
NoEntry == [found |-> FALSE, e |-> 0]

IdleThread ==
    [pc |-> "idle", args |-> NoArgs, key |-> <<>>, read |-> NoEntry,
     saw |-> FALSE, quiet |-> FALSE, over |-> FALSE, out |-> "none"]

\* The history h after a successful insert of key with expiry e.
Inserted(h, key, e) ==
    SelectSeq(h, LAMBDA it : it.k # key) \o <<[k |-> key, e |-> e]>>

\* The history h once only the keys of mapping c are left.
Kept(h, c) == SelectSeq(h, LAMBDA it : DictHas(c, it.k))

\* The never-swept cache: its mapping and what its last call returned.
Plain(c, val, phase) ==
    [on |-> TRUE, cache |-> c, val |-> val, phase |-> phase]

\* No second cache and no history are kept.
NoPlain == [on |-> FALSE, cache |-> <<>>, val |-> FALSE, phase |-> ""]

\* The next value of ins or plain: kept up only where a second cache is.
Track(new, old) == IF plain.on THEN new ELSE old

\* The never-swept cache after a call on it returned r = [cache, val, ...].
PlainAfter(r, phase) == Plain(r.cache, r.val, phase)

Init ==
    /\ now = 0
    /\ cache = <<>>
    /\ dd = NoInstance
    /\ ret = Result("init", <<>>, FALSE, NoError, NoArgs, NoTtl)
    /\ rec = {}
    /\ hh = <<>>
    /\ th = [t \in Threads |-> IdleThread]
    /\ scope = "out"
    /\ ins = <<>>
    /\ plain = NoPlain

\* Deduplicator(ttl_seconds=..., cache_backend=cache, hash_algorithm=...,
\* key_prefix=...)
Construct(ttl_seconds, hash_algorithm, key_prefix) ==
    /\ ~dd.made
    /\ dd' = DeduplicatorInit(ttl_seconds, hash_algorithm, key_prefix).self
    /\ ret' = Result("construct", <<>>, FALSE,
                     DeduplicatorInit(ttl_seconds, hash_algorithm, key_prefix).err,
                     NoArgs, ttl_seconds)
    /\ UNCHANGED <<now, cache, rec, hh, th, scope, ins, plain>>

\* The outcome r of the call is_duplicate(args) that ended at clock reading
\* t.  The never-swept cache goes through the same call with the key the
\* call derived.
Returned(r, args, t) ==
    /\ Len(r.cache) <= MaxEntries
    /\ cache' = r.cache
    /\ ret' = Called("is_duplicate", r.key, r.val, r.err, r.raised, r.phase,
                     args, NoTtl)
    /\ rec' = {x \in rec : DictHas(r.cache, x.k) /\ (r.val \/ x.k # r.key)}
              \cup (IF r.err = NoError /\ ~r.val
                    THEN {[k |-> r.key, t |-> t, m |-> args.message,
                           again |-> \E x \in rec : x.k = r.key]}
                    ELSE {})
    /\ ins' = Track(IF r.err = NoError /\ ~r.val
                    THEN Inserted(ins, r.key, t + dd.ttl_seconds)
                    ELSE Kept(ins, r.cache),
                    ins)
    /\ plain' = Track(IF r.phase = "derive"
                      THEN Plain(DeriveFailed(plain.cache,
                                              [err |-> r.raised]).cache,
                                 FALSE, "")
                      ELSE PlainAfter(AfterGet(dd, r.key,
                                               CacheGet(plain.cache, r.key, now),
                                               t),
                                      ""),
                      plain)
    /\ now' = t

\* dd.is_duplicate(message, format, custom_key, **kwargs); the clock
\* advances by drift between cache.get and cache.set.
CallIsDuplicate(message, format, custom_key, kwargs, drift) ==
    /\ dd.made
    /\ now + drift <= MaxTime
    /\ Returned(IsDuplicate(dd, cache, message, format, custom_key, kwargs,
                            now, now + drift),
                Args(message, format, custom_key, kwargs), now + drift)
    /\ UNCHANGED <<dd, hh, th, scope>>

\* dd.clear()
CallClear ==
    /\ dd.made
    /\ cache' = DeduplicatorClear(cache)
    /\ ret' = Result("clear", <<>>, \E i \in 1..Len(cache) : cache[i].e >= now,
                     NoError, NoArgs, NoTtl)
    /\ rec' = {}
    /\ ins' = <<>>
    /\ plain' = Track(Plain(DeduplicatorClear(plain.cache), FALSE, ""), plain)
    /\ UNCHANGED <<now, dd, hh, th, scope>>

\* The return statement a cache.get(key) ends at: memory.py:38 ("missing"),
\* :43 ("expired") or :45 ("live").
GetBranch(c, key, t) ==
    IF ~DictHas(c, key) THEN "missing"
    ELSE IF DictAt(c, key) < t THEN "expired"
    ELSE "live"

\* cache.get(key); ret.phase is the branch taken
Get(key) ==
    /\ cache' = CacheGet(cache, key, now).cache
    /\ ret' = Called("get", key, CacheGet(cache, key, now).val, NoError,
                     NoError, GetBranch(cache, key, now), NoArgs, NoTtl)
    /\ rec' = {x \in rec : DictHas(cache', x.k)}
    /\ ins' = Track(Kept(ins, cache'), ins)
    /\ plain' = Track(PlainAfter(CacheGet(plain.cache, key, now),
                                 GetBranch(plain.cache, key, now)),
                      plain)
    /\ UNCHANGED <<now, dd, hh, th, scope>>

\* Where cache.set(key, ...) finds its key in the mapping: "absent", "last"
\* (already the newest entry) or "before" (move_to_end has to move it).
SetPlace(c, key) ==
    IF ~DictHas(c, key) THEN "absent"
    ELSE IF c[Len(c)].k = key THEN "last"
    ELSE "before"

\* cache.set(key, ttl_seconds); ret.phase is where the key was found
Set(key, ttl_seconds) ==
    /\ Len(CacheSet(cache, key, ttl_seconds, now).cache) <= MaxEntries
    /\ cache' = CacheSet(cache, key, ttl_seconds, now).cache
    /\ ret' = Called("set", key, FALSE,
                     CacheSet(cache, key, ttl_seconds, now).err,
                     CacheSet(cache, key, ttl_seconds, now).err,
                     SetPlace(cache, key), NoArgs, IntArg(ttl_seconds))
    /\ rec' = IF ret'.err = NoError THEN {x \in rec : x.k # key} ELSE rec
    /\ ins' = Track(IF ret'.err = NoError
                    THEN Inserted(ins, key, now + ttl_seconds)
                    ELSE Kept(ins, cache'),
                    ins)
    /\ plain' = Track(Plain(CacheSet(plain.cache, key, ttl_seconds, now).cache,
                            FALSE, ""),
                      plain)
    /\ UNCHANGED <<now, dd, hh, th, scope>>

\* cache.delete(key)
Delete(key) ==
    /\ cache' = CacheDelete(cache, key)
    /\ ret' = Result("delete", key, FALSE, NoError, NoArgs, NoTtl)
    /\ rec' = {x \in rec : x.k # key}
    /\ ins' = Track(Kept(ins, cache'), ins)
    /\ plain' = Track(Plain(CacheDelete(plain.cache, key), FALSE, ""), plain)
    /\ UNCHANGED <<now, dd, hh, th, scope>>

\* cache._clean_expired()
Sweep ==
    /\ cache' = CleanExpired(cache, now)
    /\ ret' = Result("_clean_expired", <<>>, FALSE, NoError, NoArgs, NoTtl)
    /\ rec' = {x \in rec : DictHas(cache', x.k)}
    /\ ins' = Track(Kept(ins, cache'), ins)
    /\ UNCHANGED <<now, dd, hh, th, scope, plain>>

\* time passes
Tick ==
    /\ now < MaxTime
    /\ now' = now + 1
    /\ ret' = Result("tick", <<>>, FALSE, NoError, NoArgs, NoTtl)
    /\ UNCHANGED <<cache, dd, rec, hh, th, scope, ins, plain>>

\* Keys and TTLs of the direct cache calls.
DirectKeys ==
    {DefaultPrefix \o <<"k">>,
     DefaultPrefix \o HashMessage(NoInstance.hasher, MsgAB, "json", "none").digest}

DirectTtls == {-1, 0, 2}

Next ==
    \/ \E t \in TtlArguments : Construct(t, "sha256", DefaultPrefix)
    \/ \E m \in Messages, drift \in Drifts :
            CallIsDuplicate(m, "json", NoCustomKey, "none", drift)
    \/ \E drift \in Drifts :
            CallIsDuplicate(MsgAB, "json", CustomKey(<<"k">>), "none", drift)
    \/ CallClear
    \/ \E k \in DirectKeys : Get(k)
    \/ \E k \in DirectKeys, t \in DirectTtls : Set(k, t)
    \/ \E k \in DirectKeys : Delete(k)
    \/ Tick

Spec == Init /\ [][Next]_vars

(***************************************************************************)
(* The key derivation of is_duplicate explored over its arguments:         *)
(* messages that hash and messages that do not, formats known, unknown and *)
(* None, extra json.dumps arguments, custom keys and key prefixes.          *)
(***************************************************************************)
KeyPrefixes == {DefaultPrefix, <<>>}

\* custom_key arguments: None, "k" and the content hash of MsgAB
CustomKeys ==
    {NoCustomKey, CustomKey(<<"k">>),
     CustomKey(HashMessage(MessageHasher("sha256", TRUE), MsgAB, "json",
                           "none").digest)}

\* (message, format, **kwargs) of the calls
KeyCalls ==
    {Args(MsgAB, "json", NoCustomKey, "none"),
     Args(MsgAB, "xml", NoCustomKey, "none"),
     Args(MsgAB, NotAString, NoCustomKey, "none"),
     Args(MsgMalformed, "JSON", NoCustomKey, "none"),
     Args(ValueMsg(JOpaque), "json", NoCustomKey, "sort_keys"),
     Args(BadProtoMsg, "Protobuf", NoCustomKey, "none")}

NextKeys ==
    \/ \E p \in KeyPrefixes : Construct(IntArg(2), "sha256", p)
    \/ \E a \in KeyCalls, k \in CustomKeys :
            CallIsDuplicate(a.message, a.format, k, a.kwargs, 0)
    \/ CallClear
    \/ Tick

SpecKeys == Init /\ [][NextKeys]_vars

(***************************************************************************)
(* JSON hashing explored over pairs of messages.  hh is the pair: each     *)
(* member a JSON value v and the representation r it is passed in,         *)
(* "parsed" (the dict itself), "text" (what json.dumps(v) writes) or       *)
(* "compact" (the same without spaces).  The values differ in the order    *)
(* of their fields at two nesting levels and in a leaf.  The clock stands   *)
(* still: every call is made within the TTL of the calls before it.        *)
(***************************************************************************)
Leaves == 1..MaxLeaf

\* A dict of the fields f and g, f first iff fFirst.
TwoFields(f, g, fFirst) == JDict(IF fFirst THEN <<f, g>> ELSE <<g, f>>)

\* {"a": x, "b": 2}
Flat(x, aFirst) ==
    TwoFields([k |-> <<"a">>, v |-> JInt(x)], [k |-> <<"b">>, v |-> JInt(2)],
              aFirst)

\* {"a": {"a": x, "ab": "b"}, "b": [x, {"b": 1}]}
Nested(x, aFirst, innerFirst) ==
    TwoFields([k |-> <<"a">>,
               v |-> TwoFields([k |-> <<"a">>, v |-> JInt(x)],
                               [k |-> <<"a", "b">>, v |-> JStr(<<"b">>)],
                               innerFirst)],
              [k |-> <<"b">>,
               v |-> JList(<<JInt(x),
                             JDict(<<[k |-> <<"b">>, v |-> JInt(1)]>>)>>)],
              aFirst)

HashValues ==
    {Flat(x, o) : x \in Leaves, o \in BOOLEAN}
    \cup {Nested(x, o, i) : x \in Leaves, o \in BOOLEAN, i \in BOOLEAN}

Representations == {"parsed", "text", "compact"}

\* The message passed for value v in representation r.
MessageOf(v, r) ==
    IF r = "parsed" THEN ValueMsg(v)
    ELSE StrMsg(Encode(v, FALSE, r = "compact"))

InitHash ==
    /\ now = 0
    /\ cache = <<>>
    /\ dd = NoInstance
    /\ ret = Result("init", <<>>, FALSE, NoError, NoArgs, NoTtl)
    /\ rec = {}
    /\ hh \in {<<[v |-> v1, r |-> r1], [v |-> v2, r |-> r2]>> :
                  v1 \in HashValues, r1 \in Representations,
                  v2 \in HashValues, r2 \in Representations}
    /\ th = [t \in Threads |-> IdleThread]
    /\ scope = "out"
    /\ ins = <<>>
    /\ plain = NoPlain

NextHash ==
    \/ Construct(IntArg(2), "sha256", DefaultPrefix)
    \/ \E i \in 1..2 :
            CallIsDuplicate(MessageOf(hh[i].v, hh[i].r), "json", NoCustomKey,
                            "none", 0)
    \/ CallClear

SpecHash == InitHash /\ [][NextHash]_vars

(***************************************************************************)
(* Threads calling is_duplicate on one Deduplicator.  A call is a sequence *)
(* of steps, each one operation on self._cache, and the steps of the       *)
(* threads interleave:                                                     *)
(*                                                                         *)
(*   Begin   deduplicator.py:75-81   derive the cache key                  *)
(*   Read    memory.py:36            expire_time = self._cache.get(key)    *)
(*   Check   memory.py:37-45         None / expired / live                 *)
(*   Evict   memory.py:42            self.delete(key)                      *)
(*   Store   memory.py:58-61         self._cache[key] = now + ttl_seconds  *)
(*   Move    memory.py:63            self._cache.move_to_end(key)          *)
(*                                                                         *)
(* move_to_end raises KeyError when another thread has removed the key     *)
(* since Store.  In this specification rec holds the failed inserts:       *)
(* [k, t, m, again] when is_duplicate(m) raised in cache.set of key k at   *)
(* clock reading t and nothing has stored k since.                         *)
(***************************************************************************)
\* ret while a call is under way
Running == Result("running", <<>>, FALSE, NoError, NoArgs, NoTtl)

\* th after thread t changed the mapping and moved to record next: the
\* calls of the other threads are no longer quiet.
Moved(t, next) ==
    [u \in Threads |->
        IF u = t THEN next
        ELSE IF th[u].pc # "idle" THEN [th[u] EXCEPT !.quiet = FALSE]
        ELSE th[u]]

\* Thread t's record once its call has ended as r.
Idled(t, r) ==
    [th[t] EXCEPT !.pc = "idle", !.read = NoEntry,
                  !.out = IF r.raised # NoError THEN "raised"
                          ELSE IF r.val THEN "dup" ELSE "new"]

\* Thread t's call has ended as r (deduplicator.py:90 or :92-96).
Finish(t, r) ==
    /\ ret' = Called("is_duplicate", r.key, r.val, r.err, r.raised, r.phase,
                     th[t].args, NoTtl)
    /\ cache' = r.cache
    /\ th' = IF r.cache = cache
             THEN [th EXCEPT ![t] = Idled(t, r)]
             ELSE Moved(t, Idled(t, r))
    /\ rec' = IF r.raised # NoError
              THEN rec \cup {[k |-> r.key, t |-> now, m |-> th[t].args.message,
                              again |-> FALSE]}
              ELSE rec

\* Thread t has derived its key as d.
Began(t, args, d) ==
    IF d.err # NoError
    THEN /\ ret' = Called("is_duplicate", DeriveFailed(cache, d).key, FALSE,
                          DeriveFailed(cache, d).err,
                          DeriveFailed(cache, d).raised, "derive", args, NoTtl)
         /\ cache' = DeriveFailed(cache, d).cache
         /\ UNCHANGED <<th, rec>>
    ELSE /\ th' = [th EXCEPT ![t] = [pc |-> "read", args |-> args,
                                     key |-> d.key, read |-> NoEntry,
                                     saw |-> FALSE, quiet |-> TRUE,
                                     over |-> FALSE, out |-> "none"]]
         /\ ret' = Running
         /\ UNCHANGED <<cache, rec>>

Begin(t, message, format, custom_key, kwargs) ==
    /\ dd.made
    /\ th[t].pc = "idle"
    /\ Began(t, Args(message, format, custom_key, kwargs),
             DeriveKey(dd, message, format, custom_key, kwargs))
    /\ UNCHANGED <<now, dd, hh, scope, ins, plain>>

Read(t) ==
    /\ th[t].pc = "read"
    /\ th' = [th EXCEPT ![t].pc = "check",
                        ![t].read = IF DictHas(cache, th[t].key)
                                    THEN [found |-> TRUE,
                                          e |-> DictAt(cache, th[t].key)]
                                    ELSE NoEntry,
                        ![t].saw = \E x \in rec : /\ x.k = th[t].key
                                                  /\ x.m = th[t].args.message]
    /\ ret' = Running
    /\ UNCHANGED <<now, cache, dd, rec, hh, scope, ins, plain>>

Check(t) ==
    /\ th[t].pc = "check"
    /\ IF ~th[t].read.found
       THEN /\ th' = [th EXCEPT ![t].pc = "store"]
            /\ ret' = Running
            /\ UNCHANGED <<cache, rec>>
       ELSE IF th[t].read.e < now
       THEN /\ th' = [th EXCEPT ![t].pc = "evict"]
            /\ ret' = Running
            /\ UNCHANGED <<cache, rec>>
       ELSE Finish(t, Ended(NoError, th[t].key, TRUE, cache, "get"))
    /\ UNCHANGED <<now, dd, hh, scope, ins, plain>>

Evict(t) ==
    /\ th[t].pc = "evict"
    /\ cache' = CacheDelete(cache, th[t].key)
    /\ th' = Moved(t, [th[t] EXCEPT !.pc = "store"])
    /\ ret' = Running
    /\ UNCHANGED <<now, dd, rec, hh, scope, ins, plain>>

\* cache.set made atomic with the check: a key that is in the mapping with
\* time left when the call comes to store it is reported a duplicate.
StoreChecksAgain(t) ==
    /\ th[t].pc = "store"
    /\ IF DictHas(cache, th[t].key) /\ DictAt(cache, th[t].key) >= now
       THEN Finish(t, Ended(NoError, th[t].key, TRUE, cache, "get"))
       ELSE /\ Len(DictStore(cache, th[t].key, now + dd.ttl_seconds))
                  <= MaxEntries
            /\ cache' = DictStore(cache, th[t].key, now + dd.ttl_seconds)
            /\ th' = Moved(t, [th[t] EXCEPT !.pc = "move"])
            /\ rec' = {x \in rec : x.k # th[t].key}
            /\ ret' = Running
    /\ UNCHANGED <<now, dd, hh, scope, ins, plain>>

Store(t) ==
    /\ th[t].pc = "store"
    /\ IF dd.ttl_seconds <= 0
       THEN Finish(t, Ended(Raise("CacheError", "none"), th[t].key, FALSE,
                            cache, "set"))
       ELSE /\ Len(DictStore(cache, th[t].key, now + dd.ttl_seconds))
                  <= MaxEntries
            /\ cache' = DictStore(cache, th[t].key, now + dd.ttl_seconds)
            /\ th' = Moved(t, [th[t] EXCEPT
                                  !.pc = "move",
                                  !.over = /\ DictHas(cache, th[t].key)
                                           /\ DictAt(cache, th[t].key) >= now])
            /\ rec' = {x \in rec : x.k # th[t].key}
            /\ ret' = Running
    /\ UNCHANGED <<now, dd, hh, scope, ins, plain>>

Move(t) ==
    /\ th[t].pc = "move"
    /\ IF DictHas(cache, th[t].key)
       THEN Finish(t, Ended(NoError, th[t].key, FALSE,
                            DictMoveToEnd(cache, th[t].key), "set"))
       ELSE Finish(t, Ended(Raise("KeyError", "none"), th[t].key, FALSE,
                            cache, "set"))
    /\ UNCHANGED <<now, dd, hh, scope, ins, plain>>

\* cache.delete(key) by the application, between the steps of the threads
DeleteMeanwhile(key) ==
    /\ cache' = CacheDelete(cache, key)
    /\ th' = [u \in Threads |->
                IF th[u].pc # "idle" THEN [th[u] EXCEPT !.quiet = FALSE]
                ELSE th[u]]
    /\ ret' = Result("delete", key, FALSE, NoError, NoArgs, NoTtl)
    /\ UNCHANGED <<now, dd, rec, hh, scope, ins, plain>>

\* (message, format, custom_key) of the threads' calls
ThreadCalls ==
    {Args(MsgAB, "json", NoCustomKey, "none"),
     Args(MsgAB, "xml", NoCustomKey, "none"),
     Args(MsgAB, NotAString, NoCustomKey, "none"),
     Args(MsgMalformed, "json", NoCustomKey, "none")}

NextConc ==
    \/ Construct(IntArg(1), "sha256", DefaultPrefix)
    \/ \E t \in Threads, a \in ThreadCalls :
            Begin(t, a.message, a.format, a.custom_key, a.kwargs)
    \/ \E t \in Threads : Read(t)
    \/ \E t \in Threads : Check(t)
    \/ \E t \in Threads : Evict(t)
    \/ \E t \in Threads : Store(t)
    \/ \E t \in Threads : Move(t)
    \/ \E k \in DirectKeys : DeleteMeanwhile(k)
    \/ Tick

SpecConc == Init /\ [][NextConc]_vars

(***************************************************************************)
(* The Deduplicator used as a context manager: `with dd: ...`.  The block  *)
(* calls is_duplicate and ends normally (or by return/break) or with an    *)
(* exception; the with statement then calls __exit__ and re-raises the     *)
(* exception unless __exit__ returned a true value.                        *)
(***************************************************************************)
\* with dd:  (deduplicator.py:108-110)
Enter ==
    /\ dd.made
    /\ scope = "out"
    /\ scope' = "in"
    /\ ret' = Result("__enter__", <<>>, FALSE, NoError, NoArgs, NoTtl)
    /\ UNCHANGED <<now, cache, dd, rec, hh, th, ins, plain>>

\* The block ends with exc; ret.val: an entry with time left was in the
\* cache; ret.raised: exc; ret.err: what the with statement raises.
Exit(exc) ==
    /\ scope = "in"
    /\ scope' = "out"
    /\ cache' = DeduplicatorExit(cache, exc).cache
    /\ ret' = Called("__exit__", <<>>,
                     \E i \in 1..Len(cache) : cache[i].e >= now,
                     IF DeduplicatorExit(cache, exc).suppress THEN NoError
                     ELSE exc,
                     exc, "", NoArgs, NoTtl)
    /\ rec' = {x \in rec : DictHas(cache', x.k)}
    /\ ins' = <<>>
    /\ plain' = Track(Plain(DeduplicatorExit(plain.cache, exc).cache, FALSE, ""),
                      plain)
    /\ UNCHANGED <<now, dd, hh, th>>

\* What the block may end with.
BlockExceptions ==
    {NoError, Raise("ValueError", "none"),
     Raise("SerializationError", "ValueError")}

NextScope ==
    \/ Construct(IntArg(2), "sha256", DefaultPrefix)
    \/ Enter
    \/ \E m \in Messages \cup {MsgMalformed}, drift \in Drifts :
            CallIsDuplicate(m, "json", NoCustomKey, "none", drift)
    \/ \E exc \in BlockExceptions : Exit(exc)
    \/ Tick

SpecScope == Init /\ [][NextScope]_vars

(***************************************************************************)
(* The cache with _clean_expired run at arbitrary moments between the      *)
(* calls.  Nothing in the package calls _clean_expired; here it may run    *)
(* whenever a maintenance routine could, and plain follows the same calls  *)
(* on a cache that is never swept.                                         *)
(***************************************************************************)
SweepMessages == {MsgAB, MsgOther}

\* As Init, with the history of inserts and the never-swept cache kept.
InitSweep ==
    /\ now = 0
    /\ cache = <<>>
    /\ dd = NoInstance
    /\ ret = Result("init", <<>>, FALSE, NoError, NoArgs, NoTtl)
    /\ rec = {}
    /\ hh = <<>>
    /\ th = [t \in Threads |-> IdleThread]
    /\ scope = "out"
    /\ ins = <<>>
    /\ plain = Plain(<<>>, FALSE, "")

NextSweep ==
    \/ Construct(IntArg(2), "sha256", DefaultPrefix)
    \/ \E m \in SweepMessages, drift \in Drifts :
            CallIsDuplicate(m, "json", NoCustomKey, "none", drift)
    \/ CallClear
    \/ \E k \in DirectKeys : Get(k)
    \/ \E k \in DirectKeys, t \in DirectTtls : Set(k, t)
    \/ \E k \in DirectKeys : Delete(k)
    \/ Sweep
    \/ Tick

SpecSweep == InitSweep /\ [][NextSweep]_vars

(***************************************************************************)
(* A workload that only records: every message is passed to is_duplicate   *)
(* at most once and no key is asked for a second time.  The calls are the  *)
(* only code that runs: MemoryCache starts no thread or timer, and nothing *)
(* in the package calls _clean_expired.  The caller may stop at any        *)
(* moment; the monotonic clock does not, which is the fairness of Tick.    *)
(***************************************************************************)
GrowMessages == {MsgAB, MsgOther, ValueMsg(JInt(1)), ValueMsg(JInt(2))}

\* The cache key is_duplicate(m) uses.
GrowKey(m) == DeriveKey(dd, m, "json", NoCustomKey, "none").key

\* is_duplicate(m) for a message not passed before
Record(m) ==
    /\ dd.made
    /\ ~DictHas(cache, GrowKey(m))
    /\ CallIsDuplicate(m, "json", NoCustomKey, "none", 0)

NextGrow ==
    \/ Construct(IntArg(1), "sha256", DefaultPrefix)
    \/ \E m \in GrowMessages : Record(m)
    \/ Tick

SpecGrow == Init /\ [][NextGrow]_vars /\ WF_vars(Tick)

(***************************************************************************)
(* Two Deduplicator instances constructed over one MemoryCache             *)
(* (cache_backend=cache) with different key_prefix values.  An instance's  *)
(* fields never change after __init__, so each is a fixed record; dd is    *)
(* the instance the last method call was made on.                          *)
(***************************************************************************)
InstanceNames == {"a", "b"}

Shared ==
    [i \in InstanceNames |->
        DeduplicatorInit(IntArg(2), "sha256",
                         IF i = "a" THEN DefaultPrefix ELSE <<>>).self]

\* The calls made on each instance: the same message on both, and a custom
\* key; "dedup:k" given to the instance with the empty prefix is the key
\* "k" of the other.
SharedCalls ==
    [i \in InstanceNames |->
        {Args(MsgAB, "json", NoCustomKey, "none"),
         Args(MsgAB, "json",
              CustomKey(IF i = "a" THEN <<"k">> ELSE DefaultPrefix \o <<"k">>),
              "none")}]

\* The cache keys instance i uses for those calls.
SharedKeys ==
    [i \in InstanceNames |->
        {DeriveKey(Shared[i], c.message, c.format, c.custom_key, c.kwargs).key :
            c \in SharedCalls[i]}]

\* The entries of c with time left at clock reading t, as lost to instance i.
Lost(c, t, i) ==
    {[k |-> c[n].k, e |-> c[n].e, by |-> i, back |-> FALSE] :
        n \in {m \in 1..Len(c) : c[m].e >= t}}

\* The call is_duplicate(args) on instance i ended as r.
SharedReturned(i, r, args) ==
    /\ Len(r.cache) <= MaxEntries
    /\ cache' = r.cache
    /\ ret' = Called("is_duplicate", r.key, r.val, r.err, r.raised, r.phase,
                     args, NoTtl)
    /\ rec' = {x \in rec : x.k # r.key /\ ~x.back /\ x.e >= now}
              \cup {[x EXCEPT !.back = TRUE] :
                        x \in {y \in rec : y.k = r.key /\ ~y.back}}
    /\ UNCHANGED <<now, hh, th, scope, ins, plain>>

\* Shared[i].is_duplicate(message, format, custom_key, **kwargs)
SharedIsDuplicate(i, args) ==
    /\ dd' = Shared[i]
    /\ SharedReturned(i, IsDuplicate(Shared[i], cache, args.message, args.format,
                                     args.custom_key, args.kwargs, now, now),
                      args)

\* Shared[i].clear()
SharedClear(i) ==
    /\ cache' = DeduplicatorClear(cache)
    /\ dd' = Shared[i]
    /\ ret' = Result("clear", <<>>, \E n \in 1..Len(cache) : cache[n].e >= now,
                     NoError, NoArgs, NoTtl)
    /\ rec' = Lost(cache, now, i)
    /\ UNCHANGED <<now, hh, th, scope, ins, plain>>

\* The block of a `with Shared[i]:` ends with exc.  __enter__ returns self
\* and changes nothing (deduplicator.py:108-110), so the open block is not
\* part of the state.
SharedExit(i, exc) ==
    /\ cache' = DeduplicatorExit(cache, exc).cache
    /\ dd' = Shared[i]
    /\ ret' = Called("__exit__", <<>>, \E n \in 1..Len(cache) : cache[n].e >= now,
                     IF DeduplicatorExit(cache, exc).suppress THEN NoError ELSE exc,
                     exc, "", NoArgs, NoTtl)
    /\ rec' = Lost(cache, now, i)
    /\ UNCHANGED <<now, hh, th, scope, ins, plain>>

NextShared ==
    \/ \E i \in InstanceNames : \E c \in SharedCalls[i] : SharedIsDuplicate(i, c)
    \/ \E i \in InstanceNames : SharedClear(i)
    \/ \E i \in InstanceNames, exc \in {NoError, Raise("ValueError", "none")} :
            SharedExit(i, exc)
    \/ Tick

SpecShared == Init /\ [][NextShared]_vars

(***************************************************************************)
(* Properties.  They read the cache and the record of the last call, not   *)
(* the operators above.  Under [][...]_vars a step with                    *)
(* ret'.op = "is_duplicate" is a call of is_duplicate: `now` is the clock  *)
(* it reads in cache.get, now' the clock it reads in cache.set.            *)
(***************************************************************************)
Present(c, k) == \E i \in 1..Len(c) : c[i].k = k

ExpiryOf(c, k) == c[CHOOSE i \in 1..Len(c) : c[i].k = k].e

\* k is in the mapping and its expiry instant has passed at clock reading t.
Passed(c, k, t) == Present(c, k) /\ ExpiryOf(c, k) < t

\* k was never recorded, was deleted or cleared, or has expired.
NotLive(c, k, t) == ~Present(c, k) \/ Passed(c, k, t)

\* C1 (first-seen is never a duplicate): an is_duplicate call on a key that
\* is not in the cache, or is in it with its expiry passed, returns False
\* without raising and leaves the key recorded with
\* expiry = (the clock read when recording) + ttl_seconds.
C1_FirstSeenNotDuplicate ==
    [][ret'.op = "is_duplicate" /\ NotLive(cache, ret'.key, now)
        => /\ ret'.err = NoError
           /\ ret'.val = FALSE
           /\ Present(cache', ret'.key)
           /\ ExpiryOf(cache', ret'.key) = now' + dd.ttl_seconds]_vars

\* A first sighting recorded while another key is held.
C1_Witness ==
    /\ ret.op = "is_duplicate" /\ ~ret.val /\ ret.err = NoError
    /\ Len(cache) = 2
    /\ \E x \in rec : x.k = ret.key /\ ~x.again /\ x.t = now
    /\ ExpiryOf(cache, ret.key) = now + dd.ttl_seconds

\* C2 (immediate repeat is a duplicate): when is_duplicate returned False
\* for a key at clock reading t0 and no clear, delete or direct insert
\* touched the key since, an is_duplicate call on that key at clock reading
\* t with t - t0 < ttl_seconds returns True.
C2_RepeatIsDuplicate ==
    [][(/\ ret'.op = "is_duplicate"
        /\ \E x \in rec : x.k = ret'.key /\ now - x.t < dd.ttl_seconds)
        => ret'.err = NoError /\ ret'.val = TRUE]_vars

\* A repeat made one tick after the first sighting, inside the window.
C2_Witness ==
    /\ ret.op = "is_duplicate" /\ ret.val
    /\ ~ret.args.custom_key.given
    /\ \E x \in rec : x.k = ret.key /\ now = x.t + 1 /\ now - x.t < dd.ttl_seconds

\* C3 (TTL expiry resets state): once the clock is beyond t0 + ttl_seconds,
\* t0 being the clock reading at which is_duplicate recorded the key, the
\* next is_duplicate call on the key returns False and records it again
\* with expiry = (the clock read when recording) + ttl_seconds.
C3_ExpiryResets ==
    [][(/\ ret'.op = "is_duplicate"
        /\ \E x \in rec : x.k = ret'.key /\ now > x.t + dd.ttl_seconds)
        => /\ ret'.err = NoError
           /\ ret'.val = FALSE
           /\ Present(cache', ret'.key)
           /\ ExpiryOf(cache', ret'.key) = now' + dd.ttl_seconds
           /\ \E y \in rec' : y.k = ret'.key /\ y.t = now']_vars

\* A key recorded, left to expire in the cache, and recorded again.
C3_Witness ==
    /\ ret.op = "is_duplicate" /\ ~ret.val
    /\ \E x \in rec : x.k = ret.key /\ x.again /\ x.t = now
    /\ ExpiryOf(cache, ret.key) = now + dd.ttl_seconds

\* C4 (a duplicate verdict does not refresh the TTL): an is_duplicate call
\* that returns True leaves the whole mapping unchanged, and as long as the
\* key stays recorded its expiry is t0 + ttl_seconds, t0 being the clock
\* reading of the call that returned False.
C4_NoRefresh ==
    /\ [][ret'.op = "is_duplicate" /\ ret'.val = TRUE => cache' = cache]_vars
    /\ [](\A x \in rec :
            Present(cache, x.k) /\ ExpiryOf(cache, x.k) = x.t + dd.ttl_seconds)

\* A duplicate verdict given later than the first sighting: the expiry is
\* still the first sighting's.
C4_Witness ==
    /\ ret.op = "is_duplicate" /\ ret.val
    /\ ret.args.custom_key.given
    /\ \E x \in rec :
        /\ x.k = ret.key
        /\ now > x.t
        /\ ExpiryOf(cache, ret.key) = x.t + dd.ttl_seconds

\* C6 (clear is a full reset and idempotent): Deduplicator.clear() never
\* raises and leaves the mapping empty whatever it held (nothing included),
\* and the is_duplicate call that follows a clear returns False.
C6_ClearResets ==
    [][/\ (ret'.op = "clear" => cache' = <<>> /\ ret'.err = NoError)
       /\ (ret.op = "clear" /\ ret'.op = "is_duplicate"
            => ret'.val = FALSE /\ ret'.err = NoError)]_vars

\* A clear that dropped an entry with time left.
C6_Witness == ret.op = "clear" /\ ret.val /\ cache = <<>>

\* C8 (non-positive TTL is always rejected): cache.set with ttl <= 0 raises
\* CacheError and leaves the mapping unchanged; Deduplicator(ttl_seconds)
\* with an argument that is not an int > 0 raises ConfigurationError and
\* yields no instance; no instance has ttl_seconds <= 0.
C8_NonPositiveTtlRejected ==
    /\ [][/\ (ret'.op = "set" /\ ret'.ttl.v <= 0
               => ret'.err.kind = "CacheError" /\ cache' = cache)
          /\ (ret'.op = "construct" /\ ~(ret'.ttl.ty = "int" /\ ret'.ttl.v > 0)
               => ret'.err.kind = "ConfigurationError" /\ ~dd'.made)]_vars
    /\ [](dd.made => dd.ttl_seconds > 0)

\* cache.set(key, 0) refused on a key that is in the cache.
C8_Witness ==
    /\ ret.op = "set" /\ ret.ttl.v = 0 /\ ret.err.kind = "CacheError"
    /\ Present(cache, ret.key)
    /\ Len(cache) = 2


\* The mapping c without key k, order kept.
Without(c, k) ==
    LET Other(x) == x.k # k IN SelectSeq(c, Other)

\* C5 (custom key overrides content): an is_duplicate call given a custom_key
\* does not raise, uses the cache key key_prefix + custom_key, and its verdict
\* and the mapping it leaves are functions of that key, the mapping, the
\* clock and ttl_seconds alone: True and no change if the key is in the
\* mapping with its expiry not passed, else False and the key stored last
\* with expiry clock + ttl_seconds.  So a call whose key was recorded less
\* than ttl_seconds ago, by whatever message, returns True.
C5_CustomKeyOverrides ==
    [][(ret'.op = "is_duplicate" /\ ret'.args.custom_key.given)
        => /\ ret'.err = NoError
           /\ ret'.key = dd.key_prefix \o ret'.args.custom_key.key
           /\ ret'.val = (Present(cache, ret'.key)
                          /\ ExpiryOf(cache, ret'.key) >= now)
           /\ cache' = IF ret'.val THEN cache
                       ELSE Without(cache, ret'.key)
                            \o <<[k |-> ret'.key,
                                  e |-> now' + dd.ttl_seconds]>>
           /\ ((\E x \in rec : x.k = ret'.key /\ now - x.t < dd.ttl_seconds)
                  => ret'.val)]_vars

\* A message that is not JSON is reported a duplicate of a different message
\* that recorded the same custom key.
C5_Witness ==
    /\ ret.op = "is_duplicate"
    /\ ret.args.custom_key.given
    /\ ret.args.message = MsgMalformed
    /\ ret.val
    /\ \E x \in rec : x.k = ret.key /\ x.m # ret.args.message

RECURSIVE StructEq(_, _)
\* v and w have the same keys and values at every nesting level, whatever
\* the order of their fields.
StructEq(v, w) ==
    /\ v.t = w.t
    /\ v.n = w.n
    /\ v.s = w.s
    /\ Len(v.kids) = Len(w.kids)
    /\ IF v.t = "dict"
       THEN \A i \in 1..Len(v.kids) : \E j \in 1..Len(w.kids) :
                /\ v.kids[i].k = w.kids[j].k
                /\ StructEq(v.kids[i].v, w.kids[j].v)
       ELSE \A i \in 1..Len(v.kids) : StructEq(v.kids[i].v, w.kids[i].v)

\* C7 (identity stability): when is_duplicate is called with a JSON message
\* structurally equal to a message that recorded its key less than
\* ttl_seconds ago, whatever the field order and the representation (parsed
\* or serialized text) of the two, the call does not raise, derives the same
\* cache key (the same hash) and returns True.
C7_IdentityStability ==
    [][\A i \in 1..2, j \in 1..2, x \in rec :
        (/\ ret'.op = "is_duplicate"
         /\ ret'.args.message = MessageOf(hh[j].v, hh[j].r)
         /\ x.m = MessageOf(hh[i].v, hh[i].r)
         /\ now - x.t < dd.ttl_seconds
         /\ StructEq(hh[i].v, hh[j].v))
        => /\ ret'.err = NoError
           /\ ret'.key = x.k
           /\ ret'.val = TRUE]_vars

\* The nested dict was recorded; its serialized text with the fields of both
\* levels in the other order is reported a duplicate.
C7_Witness ==
    /\ ret.op = "is_duplicate" /\ ret.val
    /\ hh[1].r = "parsed" /\ hh[2].r = "text"
    /\ \E x \in Leaves :
          /\ hh[1].v = Nested(x, TRUE, TRUE)
          /\ hh[2].v = Nested(x, FALSE, FALSE)
    /\ ret.args.message = MessageOf(hh[2].v, hh[2].r)
    /\ \E x \in rec : x.k = ret.key /\ x.m = MessageOf(hh[1].v, hh[1].r)

\* C9 (a failed call corrupts nothing): an is_duplicate call that raises in
\* key derivation leaves the mapping exactly as it was; a call whose cache
\* insert raises raises itself and leaves its key absent from the mapping;
\* and the next call on the same message, made before anything stores the
\* key and while nothing else changes the mapping, returns False and
\* records the key.
C9_NoPartialCorruption ==
    [][/\ (ret'.op = "is_duplicate" /\ ret'.phase = "derive"
              /\ ret'.raised # NoError
            => cache' = cache)
       /\ (ret'.op = "is_duplicate" /\ ret'.phase = "set"
              /\ ret'.raised # NoError
            => ret'.err # NoError /\ ~Present(cache', ret'.key))
       /\ \A t \in Threads :
            (th[t].pc # "idle" /\ th'[t].pc = "idle"
                /\ th[t].saw /\ th[t].quiet)
            => /\ ret'.err = NoError
               /\ ret'.val = FALSE
               /\ Present(cache', ret'.key)]_vars

\* A thread whose insert had failed called again undisturbed: it got False
\* and its key is recorded.
C9_Witness ==
    /\ ret.op = "is_duplicate" /\ ret.err = NoError /\ ~ret.val
    /\ \E t \in Threads :
          /\ th[t].pc = "idle" /\ th[t].saw /\ th[t].quiet
          /\ th[t].key = ret.key
    /\ Present(cache, ret.key)

\* C10 (stable error surface): an is_duplicate call raises nothing, a
\* SerializationError or a CacheError; a SerializationError or CacheError
\* raised inside it is raised unchanged; any other exception raised inside
\* it, in key derivation or in the cache calls, is raised as a CacheError
\* whose cause is that exception; a SerializationError comes from key
\* derivation only, and an unknown format or a malformed JSON text gives one.
C10_StableErrorSurface ==
    [][ret'.op = "is_duplicate"
        => /\ ret'.err.kind \in {"none", "SerializationError", "CacheError"}
           /\ (ret'.raised = NoError) = (ret'.err = NoError)
           /\ (ret'.raised.kind \in {"SerializationError", "CacheError"}
                 => ret'.err = ret'.raised)
           /\ (ret'.raised.kind \notin {"none", "SerializationError",
                                        "CacheError"}
                 => ret'.err = [kind |-> "CacheError",
                                cause |-> ret'.raised.kind])
           /\ (ret'.err.kind = "SerializationError" => ret'.phase = "derive")
           /\ (ret'.args.format = "xml" \/ ret'.args.message = MsgMalformed
                 => ret'.err.kind = "SerializationError")]_vars

\* The KeyError of move_to_end, raised in cache.set, reached the caller as a
\* CacheError with the KeyError as its cause.
C10_Witness ==
    /\ ret.op = "is_duplicate"
    /\ ret.phase = "set"
    /\ ret.raised.kind = "KeyError"
    /\ ret.err = [kind |-> "CacheError", cause |-> "KeyError"]

\* C11 (check-then-insert is not atomic): a call that found its key not
\* present stores it without looking again, also when another thread has
\* recorded the key since and that entry has time left, and then, unless its
\* insert raises, returns False: two threads can both be told "not a
\* duplicate" for one key within one TTL window (C11_Witness).
C11_CheckThenInsertNotAtomic ==
    [][\A t \in Threads :
        /\ (th[t].pc = "store" /\ Present(cache, th[t].key)
               /\ ExpiryOf(cache, th[t].key) >= now /\ th'[t] # th[t]
             => /\ th'[t].pc = "move" /\ th'[t].over
                /\ ExpiryOf(cache', th[t].key) = now + dd.ttl_seconds)
        /\ (th[t].pc = "move" /\ th[t].over /\ th'[t].pc = "idle"
               /\ ret'.err = NoError
             => ret'.val = FALSE /\ th'[t].out = "new")]_vars

\* Both threads were answered False for the same key, the second having
\* stored it over the entry of the first while that entry had time left.
C11_Witness ==
    /\ \A t \in Threads : th[t].pc = "idle" /\ th[t].out = "new"
    /\ th["t1"].key = th["t2"].key
    /\ \E t \in Threads : th[t].over
    /\ Present(cache, th["t1"].key)
    /\ ret.op = "is_duplicate" /\ ~ret.val /\ ret.err = NoError

\* C12 (race-free expiry): in every interleaving, an entry whose expiry has
\* not passed leaves the mapping only in a step of an explicit delete or
\* clear.
C12_LiveRemovedOnlyExplicitly ==
    [][\A i \in 1..Len(cache) :
        (cache[i].e >= now /\ ~Present(cache', cache[i].k))
        => ret'.op \in {"delete", "clear"}]_vars

\* C13 (insert never fails): a cache.set with ttl_seconds > 0 raises nothing,
\* called directly or by is_duplicate, in every interleaving with the calls
\* of other threads.
C13_InsertNeverFails ==
    [][/\ (ret'.op = "set" /\ ret'.ttl.v > 0 => ret'.err = NoError)
       /\ (ret'.op = "is_duplicate" /\ ret'.phase = "set"
              /\ dd.ttl_seconds > 0
            => ret'.raised = NoError)]_vars

\* C14 (scoped use clears on every exit path): leaving a `with dd:` block,
\* normally or by an exception raised in it, ends with the cache empty, and
\* the exception of the block is the one the with statement raises.
C14_ScopedClear ==
    [][ret'.op = "__exit__"
        => /\ cache' = <<>>
           /\ ret'.err = ret'.raised
           /\ scope' = "out"]_vars

\* A block that had recorded keys ended with a SerializationError: the
\* cache is empty and the exception reached the caller.
C14_Witness ==
    /\ ret.op = "__exit__"
    /\ ret.val
    /\ ret.raised.kind = "SerializationError"
    /\ ret.err.kind = "SerializationError"
    /\ cache = <<>>

\* C15 (liveness boundary): cache.get(key) returns True iff the key is in
\* the mapping and the clock is strictly before its expiry instant, so a
\* get at exactly the expiry instant returns False; is_duplicate's verdict
\* is that same test.
C15_LiveIffBeforeExpiry ==
    [][(ret'.op = "get" \/ (ret'.op = "is_duplicate" /\ ret'.err = NoError))
        => ret'.val = (/\ Present(cache, ret'.key)
                       /\ now < ExpiryOf(cache, ret'.key))]_vars

\* C16 (read-triggered eviction and its frame): cache.get(key) never raises;
\* on a key that is in the mapping with its expiry passed it returns False
\* and leaves the mapping without that key, every other item and the order
\* as they were; on any other key, missing or live, it leaves the mapping
\* as it was.
C16_EvictionFrame ==
    [][ret'.op = "get"
        => /\ ret'.err = NoError
           /\ IF Passed(cache, ret'.key, now)
              THEN ret'.val = FALSE /\ cache' = Without(cache, ret'.key)
              ELSE cache' = cache
           /\ (~Present(cache, ret'.key) => ret'.val = FALSE)]_vars

\* A get evicted its expired key and left the other key, expired too, in
\* the mapping.
C16_Witness ==
    /\ ret.op = "get" /\ ret.phase = "expired" /\ ~ret.val
    /\ Len(cache) = 1
    /\ cache[1].k # ret.key
    /\ cache[1].e < now

\* C17: the keys of the mapping are unique; each key's expiry is the clock
\* reading plus TTL of its most recent successful insert; and the entries
\* stand in the order of those most recent inserts, so that an insert of a
\* key already present moves it to the end and no get, delete, clear or
\* sweep reorders the entries that remain.
C17_OrderingInvariant ==
    /\ \A i, j \in 1..Len(cache) : cache[i].k = cache[j].k => i = j
    /\ cache = ins

\* C17 witness: a set of a key that stood before another entry has succeeded
\* and the key is now the last of two entries.
C17_Witness ==
    /\ ret.op = "set"
    /\ ret.phase = "before"
    /\ ret.err = NoError
    /\ Len(cache) = 2
    /\ cache[2].k = ret.key
    /\ cache[2].e = now + ret.ttl.v
    /\ cache = ins

\* C18: a sweep removes exactly the keys whose expiry has passed, leaves
\* every other entry as it was, and changes no result: every get and every
\* is_duplicate of a run with sweeps interleaved returns what the same call
\* returns in the same run of calls made on a cache that is never swept.
C18_SweepIsPureOptimization ==
    [][/\ (ret'.op = "_clean_expired") =>
            /\ \A i \in 1..Len(cache) :
                   Present(cache', cache[i].k) <=> ~Passed(cache, cache[i].k, now)
            /\ \A i \in 1..Len(cache') :
                   /\ Present(cache, cache'[i].k)
                   /\ ExpiryOf(cache, cache'[i].k) = cache'[i].e
       /\ (ret'.op \in {"get", "is_duplicate"}) => ret'.val = plain'.val
      ]_vars

\* C18 witness: a get found its key missing, a sweep having removed it,
\* where the never-swept cache found it expired; both returned False.
C18_Witness ==
    /\ ret.op = "get"
    /\ ret.phase = "missing"
    /\ plain.phase = "expired"
    /\ ~ret.val
    /\ ~plain.val

\* C19 (bounded growth): under a workload that records distinct keys through
\* is_duplicate and never asks for them again, every entry whose expiry has
\* passed is eventually removed from the mapping.
C19_ExpiredEventuallyRemoved ==
    \A m \in GrowMessages :
        (dd.made /\ Passed(cache, GrowKey(m), now))
            ~> ~Present(cache, GrowKey(m))

\* C20 (a shared cache is reset as a whole): with two Deduplicator instances
\* over one cache under different key_prefix values, an is_duplicate call on
\* one instance leaves every entry under a key of the other instance as it
\* was, that key being distinct from the key the call used; a clear() or a
\* scope exit on either instance empties the whole cache; and the first
\* is_duplicate to ask for a key so removed with time left returns False.
C20_SharedResetNotPrefixScoped ==
    [][/\ (ret'.op = "is_duplicate") =>
            \A i \in InstanceNames, j \in InstanceNames :
                (dd' = Shared[i] /\ j # i) =>
                    \A k \in SharedKeys[j] :
                        (k # ret'.key) =>
                            /\ Present(cache', k) <=> Present(cache, k)
                            /\ Present(cache, k) =>
                                   ExpiryOf(cache', k) = ExpiryOf(cache, k)
       /\ (ret'.op \in {"clear", "__exit__"}) => cache' = <<>>
       /\ (/\ ret'.op = "is_duplicate"
           /\ ret'.err = NoError
           /\ \E x \in rec : x.k = ret'.key /\ ~x.back) => ~ret'.val
      ]_vars

\* C20 witness: instance "a" was answered False for its content-hash key of
\* MsgAB before the expiry of the entry it had recorded, which a clear() or a
\* scope exit on instance "b" removed.
C20_Witness ==
    /\ ret.op = "is_duplicate"
    /\ ret.err = NoError
    /\ ~ret.val
    /\ dd = Shared["a"]
    /\ ret.args.custom_key = NoCustomKey
    /\ ret.key \in SharedKeys["a"] \ SharedKeys["b"]
    /\ \E x \in rec : x.k = ret.key /\ x.back /\ x.by = "b" /\ now < x.e

====
